---- MODULE Spec2Model ----
(***************************************************************************)
(* Model of homework.py: the Training class hierarchy (Running,            *)
(* SportsWalking, Swimming), the factory read_package, main and the        *)
(* driver loop of the __main__ block.                                      *)
(*                                                                         *)
(* A Python number is modelled by its exact value n * 2^e, where n is an   *)
(* arbitrary-size natural (a little-endian sequence of limbs), because the *)
(* values do not fit the integers of the model checker.  An int has e = 0. *)
(* A float is an IEEE double: a 53-bit significand n and an exponent e;    *)
(* every float literal and every float operation is rounded to the         *)
(* nearest double, ties to even, and '.3f' formats the exact value of the  *)
(* double.  The power operator calls the pow of the C library, which is    *)
(* not bound to round correctly: its result is one of the two doubles      *)
(* that enclose the exact power.  Overflow, underflow and negative numbers *)
(* do not occur for the inputs used.                                       *)
(***************************************************************************)
EXTENDS Integers, Sequences, FiniteSets, TLC

VARIABLES
    packages,      \* the list of (workout_type, data) records of the __main__ block
    idx,           \* position of the for loop in packages
    workout_type,  \* the workout-type code handed to read_package
    data,          \* the list of sensor values handed to read_package
    training,      \* the Training instance at hand, or None
    ret,           \* outcome of the last call: what it returned or raised
    stdout,        \* the lines printed so far
    pc             \* position of the caller

vars == <<packages, idx, workout_type, data, training, ret, stdout, pc>>

(***************************************************************************)
(* Arbitrary-size naturals: <<l1, l2, ...>> is l1 + l2*Base + ...          *)
(***************************************************************************)
Base == 10000

RECURSIVE BNat(_)
BNat(k) ==
    IF k = 0 THEN <<>> ELSE <<k % Base>> \o BNat(k \div Base)

RECURSIVE Norm(_)
Norm(a) ==
    IF a = <<>> THEN <<>>
    ELSE IF a[Len(a)] = 0 THEN Norm(SubSeq(a, 1, Len(a) - 1))
    ELSE a

Lo(a) == IF a = <<>> THEN 0 ELSE Head(a)

Hi(a) == IF a = <<>> THEN <<>> ELSE Tail(a)

RECURSIVE BAddC(_, _, _)
BAddC(a, b, c) ==
    IF a = <<>> /\ b = <<>> THEN BNat(c)
    ELSE <<(Lo(a) + Lo(b) + c) % Base>>
         \o BAddC(Hi(a), Hi(b), (Lo(a) + Lo(b) + c) \div Base)

BAdd(a, b) == Norm(BAddC(a, b, 0))

RECURSIVE BMulSmall(_, _, _)
BMulSmall(a, k, c) ==
    IF a = <<>> THEN BNat(c)
    ELSE <<(Head(a) * k + c) % Base>>
         \o BMulSmall(Tail(a), k, (Head(a) * k + c) \div Base)

RECURSIVE BMulRaw(_, _)
BMulRaw(a, b) ==
    IF b = <<>> THEN <<>>
    ELSE BAddC(BMulSmall(a, Head(b), 0), <<0>> \o BMulRaw(a, Tail(b)), 0)

BMul(a, b) == Norm(BMulRaw(a, b))

RECURSIVE BSubB(_, _, _)
BSubB(a, b, borrow) ==
    IF a = <<>> THEN <<>>
    ELSE IF Head(a) - Lo(b) - borrow < 0
    THEN <<Head(a) - Lo(b) - borrow + Base>> \o BSubB(Tail(a), Hi(b), 1)
    ELSE <<Head(a) - Lo(b) - borrow>> \o BSubB(Tail(a), Hi(b), 0)

\* a - b for a >= b
BSub(a, b) == Norm(BSubB(a, b, 0))

RECURSIVE BLessN(_, _)
BLessN(a, b) ==
    IF Len(a) # Len(b) THEN Len(a) < Len(b)
    ELSE IF a = <<>> THEN FALSE
    ELSE IF a[Len(a)] # b[Len(b)] THEN a[Len(a)] < b[Len(b)]
    ELSE BLessN(SubSeq(a, 1, Len(a) - 1), SubSeq(b, 1, Len(b) - 1))

BLess(a, b) == BLessN(Norm(a), Norm(b))

BLeq(a, b) == ~BLess(b, a)

\* a div k for an integer 0 < k < Base, from the most significant limb a[i]
\* down: the limbs above a[i] gave the quotient q and the remainder c
RECURSIVE BDivSmallFrom(_, _, _, _, _)
BDivSmallFrom(a, i, k, q, c) ==
    IF i = 0 THEN Norm(q)
    ELSE BDivSmallFrom(a, i - 1, k, <<(c * Base + a[i]) \div k>> \o q,
                       (c * Base + a[i]) % k)

BDivSmall(a, k) == BDivSmallFrom(a, Len(a), k, <<>>, 0)

\* limb i of a, 0 above its length
Limb(a, i) == IF i <= Len(a) THEN a[i] ELSE 0

Min(x, y) == IF x < y THEN x ELSE y

\* the largest q <= guess with b*q <= r
RECURSIVE BDigit(_, _, _)
BDigit(r, b, guess) ==
    IF BLeq(BMulSmall(b, guess, 0), r) THEN guess ELSE BDigit(r, b, guess - 1)

\* the quotient digit of r by b, for r < b*Base and a top limb of b that is
\* at least Base div 2: the two top limbs of r by the top limb of b is at
\* most 2 above it
BGuess(r, b) ==
    Min((Limb(r, Len(b) + 1) * Base + Limb(r, Len(b))) \div b[Len(b)], Base - 1)

\* long division of a by b, from the most significant limb a[i] down: the
\* limbs above a[i] gave the quotient q and the remainder rem
RECURSIVE BDivFrom(_, _, _, _, _)
BDivDigit(a, i, b, q, rem, dig) ==
    BDivFrom(a, i - 1, b, <<dig>> \o q, BSub(rem, BMulSmall(b, dig, 0)))

\* a remainder below b gives the digit 0
BDivLimb(a, i, b, q, rem) ==
    IF BLess(rem, b) THEN BDivFrom(a, i - 1, b, <<0>> \o q, rem)
    ELSE BDivDigit(a, i, b, q, rem, BDigit(rem, b, BGuess(rem, b)))

BDivFrom(a, i, b, q, rem) ==
    IF i = 0 THEN [q |-> Norm(q), r |-> rem]
    ELSE BDivLimb(a, i, b, q, Norm(<<a[i]>> \o rem))

\* the factor that brings the top limb of b to Base div 2 or more
BScale(b) == Base \div (b[Len(b)] + 1)

BDivScaled(dm, f) == [q |-> dm.q, r |-> BDivSmall(dm.r, f)]

BDivBy(a, b, f) ==
    BDivScaled(BDivFrom(BMulSmall(a, f, 0), Len(BMulSmall(a, f, 0)),
                        BMulSmall(b, f, 0), <<>>, <<>>), f)

\* [q |-> a div b, r |-> a mod b] for b # 0 (b without leading zero limbs)
BDivMod(a, b) == BDivBy(Norm(a), Norm(b), BScale(Norm(b)))

\* the value of a natural that fits the integers of the model checker
RECURSIVE BInt(_)
BInt(a) == IF a = <<>> THEN 0 ELSE Head(a) + Base * BInt(Tail(a))

(***************************************************************************)
(* Python values.  A number is [kind, n, e, s] with value n * 2^e; the     *)
(* kinds are those isinstance tells apart.  Only non-negative numbers      *)
(* occur.                                                                  *)
(***************************************************************************)
PyInt(k) == [kind |-> "int", n |-> BNat(k), e |-> 0, s |-> ""]

PyBool(b) == [kind |-> "bool", n |-> BNat(IF b THEN 1 ELSE 0), e |-> 0, s |-> ""]

PyStr(t) == [kind |-> "str", n |-> <<>>, e |-> 0, s |-> t]

None == [kind |-> "NoneType", n |-> <<>>, e |-> 0, s |-> ""]

\* 2^k
RECURSIVE BPow2(_)
BPow2(k) == IF k < 12 THEN BNat(2 ^ k) ELSE BMulSmall(BPow2(k - 12), 4096, 0)

\* the significands of doubles are Two52, ..., Two53 - 1
Two52 == BPow2(52)

Two53 == BPow2(53)

\* a mod 2: Base^i has the parity of Base
RECURSIVE BParity(_)
BParity(a) ==
    IF a = <<>> THEN 0 ELSE (Head(a) + (Base % 2) * BParity(Tail(a))) % 2

BOdd(a) == BParity(a) = 1

\* the value of a number as a ratio Num(x) / Den(x) of naturals
Num(x) == IF x.e >= 0 THEN BMul(x.n, BPow2(x.e)) ELSE x.n

Den(x) == IF x.e >= 0 THEN BNat(1) ELSE BPow2(-x.e)

IsZero(x) == Norm(x.n) = <<>>

PyZero == [kind |-> "float", n |-> <<>>, e |-> 0, s |-> ""]

\* the float m * 2^e for Two52 <= m <= Two53
DoubleOf(m, e) ==
    IF m = Two53 THEN [kind |-> "float", n |-> Two52, e |-> e + 1, s |-> ""]
    ELSE [kind |-> "float", n |-> m, e |-> e, s |-> ""]

\* dm.q + dm.r/d rounded to an integer: to the nearest one, ties to even,
\* or down, or up
DoubleRound(mode, dm, d) ==
    CASE mode = "down" -> dm.q
      [] mode = "up" -> IF dm.r = <<>> THEN dm.q ELSE BAdd(dm.q, BNat(1))
      [] OTHER ->
            IF BLess(d, BAdd(dm.r, dm.r)) \/ (BAdd(dm.r, dm.r) = d /\ BOdd(dm.q))
            THEN BAdd(dm.q, BNat(1))
            ELSE dm.q

\* 2^52 <= (n/d) * 2^sh
DoubleScaled(n, d, sh) ==
    IF sh >= 0 THEN BLeq(BMul(d, Two52), BMul(n, BPow2(sh)))
    ELSE BLeq(BMul(BMul(d, Two52), BPow2(-sh)), n)

\* some sh <= from, a multiple of 64 below it, with (n/d) * 2^sh < 2^52
RECURSIVE DoubleBelow(_, _, _)
DoubleBelow(n, d, from) ==
    IF DoubleScaled(n, d, from) THEN DoubleBelow(n, d, from - 64) ELSE from

\* some sh >= from, a multiple of 64 above it, with 2^52 <= (n/d) * 2^sh
RECURSIVE DoubleAbove(_, _, _)
DoubleAbove(n, d, from) ==
    IF DoubleScaled(n, d, from) THEN from ELSE DoubleAbove(n, d, from + 64)

\* the least sh in lo..hi with 2^52 <= (n/d) * 2^sh, so that
\* (n/d) * 2^sh < 2^53
RECURSIVE DoubleShift(_, _, _, _)
DoubleShift(n, d, lo, hi) ==
    IF lo = hi THEN lo
    ELSE IF DoubleScaled(n, d, (lo + hi) \div 2)
    THEN DoubleShift(n, d, lo, (lo + hi) \div 2)
    ELSE DoubleShift(n, d, (lo + hi) \div 2 + 1, hi)

DoubleQuot(mode, n, d, e) == DoubleOf(DoubleRound(mode, BDivMod(n, d), d), e)

\* (n/d) * 2^e with (n/d) * 2^sh rounded to an integer significand
DoubleAt(mode, n, d, sh, e) ==
    IF sh >= 0 /\ d = BNat(1) THEN DoubleOf(BMul(n, BPow2(sh)), e - sh)
    ELSE IF sh >= 0 THEN DoubleQuot(mode, BMul(n, BPow2(sh)), d, e - sh)
    ELSE DoubleQuot(mode, n, BMul(d, BPow2(-sh)), e - sh)

\* the double that (n/d) * 2^e rounds to, for n, d # 0 and a significand
\* that is (n/d) * 2^sh for some sh in lo..hi
DoubleIn(mode, n, d, e, lo, hi) == DoubleAt(mode, n, d, DoubleShift(n, d, lo, hi), e)

\* the double nearest to (n/d) * 2^e, d # 0
Double(n, d, e) ==
    IF Norm(n) = <<>> THEN PyZero
    ELSE DoubleIn("even", Norm(n), Norm(d), e,
                  DoubleBelow(Norm(n), Norm(d), 0) + 1, DoubleAbove(Norm(n), Norm(d), 64))

\* the float literal k/m
PyFloat(k, m) == Double(BNat(k), BNat(m), 0)

\* (variant: bool taken for a type of its own)
PyBases_flat(kind) == {kind}

\* bool is a subclass of int
PyBases(kind) == IF kind = "bool" THEN {"bool", "int"} ELSE {kind}

isinstance(x, kinds) == PyBases(x.kind) \cap kinds # {}

\* int op int is an int, anything with a float is a float
OpKind(x, y) == IF x.kind = "float" \/ y.kind = "float" THEN "float" ELSE "int"

\* float(x)
Float(x) == IF x.kind = "float" THEN x ELSE Double(x.n, BNat(1), 0)

Abs(k) == IF k < 0 THEN -k ELSE k

\* the operations of floats x, y # 0.  The significands lie in Two52 ..
\* Two53 - 1, which tells the exponent of the exact result but for one bit.
FloatMul(x, y) ==
    IF IsZero(x) \/ IsZero(y) THEN PyZero
    ELSE DoubleIn("even", BMul(x.n, y.n), BNat(1), x.e + y.e, -53, -52)

\* the sum of the significands, brought to the lesser exponent
FloatSum(x, y) ==
    IF x.e <= y.e THEN BAdd(x.n, BMul(y.n, BPow2(y.e - x.e)))
    ELSE BAdd(BMul(x.n, BPow2(x.e - y.e)), y.n)

FloatAdd(x, y) ==
    IF IsZero(x) THEN y
    ELSE IF IsZero(y) THEN x
    ELSE DoubleIn("even", FloatSum(x, y), BNat(1), Min(x.e, y.e),
                  -Abs(x.e - y.e) - 1, -Abs(x.e - y.e))

FloatQuot(x, y) ==
    IF IsZero(x) THEN PyZero
    ELSE DoubleIn("even", x.n, y.n, x.e - y.e, 52, 53)

\* x * y: exact for two ints, else the product of the floats, rounded
PyMul(x, y) ==
    IF OpKind(x, y) = "int"
    THEN [kind |-> "int", n |-> BMul(x.n, y.n), e |-> 0, s |-> ""]
    ELSE FloatMul(Float(x), Float(y))

\* x + y
PyAdd(x, y) ==
    IF OpKind(x, y) = "int"
    THEN [kind |-> "int", n |-> BAdd(x.n, y.n), e |-> 0, s |-> ""]
    ELSE FloatAdd(Float(x), Float(y))

\* x / y for y # 0: the quotient of two ints is rounded once, else the
\* quotient of the floats is
PyQuot(x, y) ==
    IF OpKind(x, y) = "int" THEN Double(x.n, y.n, 0)
    ELSE FloatQuot(Float(x), Float(y))

\* n^k
RECURSIVE BPowK(_, _)
BPowK(n, k) == IF k = 0 THEN BNat(1) ELSE BMul(n, BPowK(n, k - 1))

\* the integral value of a float y >= 1
IntOf(y) == BInt(BDivMod(Num(y), Den(y)).q)

\* x^k for a float x # 0 and k > 0, rounded down or up: the significand of
\* x^k lies between 2^(52k) and 2^(53k)
FloatPowK(mode, x, k) ==
    DoubleIn(mode, BPowK(x.n, k), BNat(1), k * x.e, 52 - 53 * k, 52 - 52 * k)

\* x ** y for floats: pow(x, y) of the C library, for x >= 0 and y of
\* integral value k.  The library does not round correctly: what it returns
\* is the double next below or next above x^k, and x^k where that is a double
PowModes == {"down", "up"}

FloatPow(x, k) ==
    IF k = 0 THEN {PyFloat(1, 1)}
    ELSE IF IsZero(x) THEN {PyZero}
    ELSE {FloatPowK(mode, x, k) : mode \in PowModes}

\* x ** y for a float y: the values the build can give
PyPow(x, y) == FloatPow(Float(x), IntOf(y))

(***************************************************************************)
(* Exceptions and outcomes of calls.  The message texts of the source are  *)
(* Russian; they are transliterated here, piece by piece.                  *)
(***************************************************************************)
NoExc == [type |-> "", msg |-> <<>>]

Exc(type, msg) == [type |-> type, msg |-> msg]

Return(v) == [ok |-> TRUE, val |-> v, exc |-> NoExc]

Raise(e) == [ok |-> FALSE, val |-> None, exc |-> e]

\* the rest of a function body after a call: Rest of what the call returned,
\* or the exception it raised, which propagates
Then(out, Rest(_)) == IF out.ok THEN Rest(out.val) ELSE out

\* the same where the rest of the body has several possible outcomes
ThenAny(out, Rest(_)) == IF out.ok THEN Rest(out.val) ELSE {out}

\* the built-in exception classes that occur, each with its base class
ExcBase(type) ==
    CASE type = "KeyError" -> "LookupError"
      [] type = "NotImplementedError" -> "RuntimeError"
      [] type = "ZeroDivisionError" -> "ArithmeticError"
      [] type \in {"ValueError", "TypeError", "LookupError", "RuntimeError",
                   "ArithmeticError"} -> "Exception"
      [] OTHER -> "BaseException"

RECURSIVE ExcMro(_)
ExcMro(type) ==
    IF type = "BaseException" THEN {type} ELSE {type} \cup ExcMro(ExcBase(type))

\* does "except <types>" catch e
Catches(types, e) == ExcMro(e.type) \cap types # {}

\* x / y
PyTrueDiv(x, y) ==
    IF IsZero(y) THEN Raise(Exc("ZeroDivisionError", <<"float division by zero">>))
    ELSE Return(PyQuot(x, y))

(***************************************************************************)
(* The classes.  An instance is a record of its class name and its         *)
(* attributes; an attribute its class does not set is None.                *)
(***************************************************************************)
\* a subclass of Training that overrides nothing: class Rowing(Training): pass
Rowing == "Rowing"

M_IN_KM == PyFloat(1000, 1)

MINUTES_IN_HOUR == PyFloat(60, 1)

Training_LEN_STEP == PyFloat(65, 100)

Swimming_LEN_STEP == PyFloat(138, 100)

\* (variant: Swimming does not override LEN_STEP)
LEN_STEP_base(cls) == Training_LEN_STEP

\* the class attribute LEN_STEP as an instance of cls sees it
LEN_STEP(cls) == IF cls = "Swimming" THEN Swimming_LEN_STEP ELSE Training_LEN_STEP

Running_CALORIES_MEAN_SPEED_MULTIPLIER == PyFloat(18, 1)

Running_CALORIES_MEAN_SPEED_SHIFT == PyFloat(179, 100)

SportsWalking_CALORIES_MEAN_SPEED_MULTIPLIER == PyFloat(35, 1000)

SportsWalking_CALORIES_MEAN_SPEED_SHIFT == PyFloat(29, 1000)

KMH_IN_MSEC == PyFloat(278, 1000)

HEIGHT_DIV == PyFloat(100, 1)

MEAN_SPEED_POW_VALUE == PyFloat(2, 1)

Swimming_CALORIES_MEAN_SPEED_MULTIPLIER == PyFloat(11, 10)

Swimming_CALORIES_MEAN_SPEED_SHIFT == PyFloat(2, 1)

\* Training.__init__(self, action, duration, weight), self of class cls
Training__init__(cls, action, duration, weight) ==
    [cls |-> cls, action |-> action, duration |-> duration, weight |-> weight,
     height |-> None, length_pool |-> None, count_pool |-> None]

SportsWalking__init__(cls, action, duration, weight, height) ==
    [Training__init__(cls, action, duration, weight) EXCEPT !.height = height]

\* (variant: the two pool attributes bound the other way round)
Swimming__init__swapped(cls, action, duration, weight, length_pool, count_pool) ==
    [Training__init__(cls, action, duration, weight) EXCEPT
        !.length_pool = count_pool, !.count_pool = length_pool]

Swimming__init__(cls, action, duration, weight, length_pool, count_pool) ==
    [Training__init__(cls, action, duration, weight) EXCEPT
        !.length_pool = length_pool, !.count_pool = count_pool]

\* type(self).__name__
TypeName(self) == self.cls

Training_get_distance(self) ==
    Return(PyQuot(PyMul(self.action, LEN_STEP(self.cls)), M_IN_KM))

get_distance(self) == Training_get_distance(self)

Training_get_mean_speed(self) ==
    Then(get_distance(self), LAMBDA distance : PyTrueDiv(distance, self.duration))

Swimming_get_mean_speed(self) ==
    PyTrueDiv(PyQuot(PyMul(self.length_pool, self.count_pool), M_IN_KM),
              self.duration)

get_mean_speed(self) ==
    IF self.cls = "Swimming" THEN Swimming_get_mean_speed(self)
    ELSE Training_get_mean_speed(self)

\* (variant: the base method is an empty stub that returns None)
Training_get_spent_calories_pass(self) == Return(None)

Training_get_spent_calories(self) ==
    Raise(Exc("NotImplementedError",
              <<"Opredelite kalorii v ", TypeName(self), ".">>))

\* (variant: the duration is not converted to minutes)
Running_get_spent_calories_hours(self) ==
    Then(get_mean_speed(self), LAMBDA speed :
        Return(
            PyMul(PyQuot(PyMul(PyAdd(PyMul(Running_CALORIES_MEAN_SPEED_MULTIPLIER,
                                           speed),
                                     Running_CALORIES_MEAN_SPEED_SHIFT),
                               self.weight),
                         M_IN_KM),
                  self.duration)))

Running_get_spent_calories(self) ==
    Then(get_mean_speed(self), LAMBDA speed :
        Return(
            PyMul(PyMul(PyQuot(PyMul(PyAdd(PyMul(Running_CALORIES_MEAN_SPEED_MULTIPLIER,
                                                 speed),
                                           Running_CALORIES_MEAN_SPEED_SHIFT),
                                     self.weight),
                               M_IN_KM),
                        self.duration),
                  MINUTES_IN_HOUR)))

\* the return statement, for the value of mean_speed_ms ** 2 / height_in_meters
SportsWalking_return(self, ratio) ==
    Return(
        PyMul(PyMul(PyAdd(PyMul(SportsWalking_CALORIES_MEAN_SPEED_MULTIPLIER,
                                self.weight),
                          PyMul(PyMul(ratio, SportsWalking_CALORIES_MEAN_SPEED_SHIFT),
                                self.weight)),
                    self.duration),
              MINUTES_IN_HOUR))

\* the return statement, for mean_speed_ms and height_in_meters as computed:
\* one outcome for each value the power can have
SportsWalking_calories(self, mean_speed_ms, height_in_meters) ==
    {Then(PyTrueDiv(power, height_in_meters),
          LAMBDA ratio : SportsWalking_return(self, ratio)) :
        power \in PyPow(mean_speed_ms, MEAN_SPEED_POW_VALUE)}

\* (variant: the height is left in centimetres)
SportsWalking_get_spent_calories_cm(self) ==
    ThenAny(get_mean_speed(self), LAMBDA speed :
        SportsWalking_calories(self, PyMul(speed, KMH_IN_MSEC), self.height))

SportsWalking_get_spent_calories(self) ==
    ThenAny(get_mean_speed(self), LAMBDA speed :
        SportsWalking_calories(self, PyMul(speed, KMH_IN_MSEC),
                               PyQuot(self.height, HEIGHT_DIV)))

Swimming_get_spent_calories(self) ==
    Then(get_mean_speed(self), LAMBDA speed :
        Return(
            PyMul(PyMul(PyMul(PyAdd(speed, Swimming_CALORIES_MEAN_SPEED_MULTIPLIER),
                              Swimming_CALORIES_MEAN_SPEED_SHIFT),
                        self.weight),
                  self.duration)))

\* the method the class of self defines or inherits: its possible outcomes
get_spent_calories(self) ==
    CASE self.cls = "Running" -> {Running_get_spent_calories(self)}
      [] self.cls = "SportsWalking" -> SportsWalking_get_spent_calories(self)
      [] self.cls = "Swimming" -> {Swimming_get_spent_calories(self)}
      [] OTHER -> {Training_get_spent_calories(self)}

InfoMessage(training_type, duration, distance, speed, calories) ==
    [training_type |-> training_type, duration |-> duration, distance |-> distance,
     speed |-> speed, calories |-> calories]

\* the possible outcomes of show_training_info
show_training_info(self) ==
    ThenAny(get_distance(self), LAMBDA distance :
    ThenAny(get_mean_speed(self), LAMBDA speed :
        {Then(spent, LAMBDA calories :
            Return(InfoMessage(TypeName(self), self.duration, distance, speed,
                               calories))) :
            spent \in get_spent_calories(self)}))

(***************************************************************************)
(* InfoMessage.get_message: the fields formatted into MESSAGE, each number *)
(* with '.3f'.  The texts are transliterated.                              *)
(***************************************************************************)
Pad3(k) ==
    IF k < 10 THEN "00" \o ToString(k)
    ELSE IF k < 100 THEN "0" \o ToString(k)
    ELSE ToString(k)

\* m thousandths as a decimal
Decimal3(m) == ToString(m \div 1000) \o "." \o Pad3(m % 1000)

\* the integer nearest to floor + r/d, ties to even
RoundHalfEven(floor, twice_r, d) ==
    IF BLess(d, twice_r) \/ (twice_r = d /\ floor % 2 = 1) THEN floor + 1 ELSE floor

RoundQuot(dm, d) == RoundHalfEven(BInt(dm.q), BAdd(dm.r, dm.r), Norm(d))

\* format(x, '.3f'): x rounded to the nearest thousandth
Format3f(x) == Decimal3(RoundQuot(BDivMod(BMul(Num(x), BNat(1000)), Den(x)), Den(x)))

get_message(info) ==
    "Tip trenirovki: " \o info.training_type
    \o "; Dlitel'nost': " \o Format3f(info.duration)
    \o " ch.; Distanciya: " \o Format3f(info.distance)
    \o " km; Sr. skorost': " \o Format3f(info.speed)
    \o " km/ch; Potracheno kkal: " \o Format3f(info.calories) \o "."

(***************************************************************************)
(* read_package and main                                                   *)
(***************************************************************************)
training_type == [SWM |-> "Swimming", RUN |-> "Running", WLK |-> "SportsWalking"]

data_len == [SWM |-> 5, RUN |-> 3, WLK |-> 4]

\* dict[key]
GetItem(dict, key) ==
    IF key \in DOMAIN dict THEN Return(dict[key])
    ELSE Raise(Exc("KeyError", <<key>>))

\* (variant: any instead of all)
AllNumbers_any(list) == \E i \in 1..Len(list) : isinstance(list[i], {"float", "int"})

\* all(isinstance(x, (float, int)) for x in data)
AllNumbers(list) == \A i \in 1..Len(list) : isinstance(list[i], {"float", "int"})

\* cls(*args) for args of the number the constructor of cls takes
Construct(cls, args) ==
    CASE cls = "Swimming" ->
            Swimming__init__(cls, args[1], args[2], args[3], args[4], args[5])
      [] cls = "SportsWalking" ->
            SportsWalking__init__(cls, args[1], args[2], args[3], args[4])
      [] OTHER -> Training__init__(cls, args[1], args[2], args[3])

\* (variant: only a list that is too short is refused)
WrongLength_short(list, expected) == Len(list) < expected

\* len(data) != data_len[workout_type]
WrongLength(list, expected) == Len(list) # expected

\* the body of the try statement
read_package_try(code, list) ==
    Then(GetItem(data_len, code), LAMBDA expected :
        IF WrongLength(list, expected)
        THEN Raise(Exc("ValueError",
                       <<"Nepravil'noe kolichestvoelementov dlya ", code>>))
        ELSE IF ~AllNumbers(list)
        THEN Raise(Exc("ValueError",
                       <<"V massive prisutstvuyut znacheniya, otlichnye ot celyh chisel">>))
        ELSE Then(GetItem(training_type, code), LAMBDA cls :
                Return(Construct(cls, list))))

\* (variant: no except clause)
ExceptKeyError_missing(out) == out

\* except KeyError: raise ValueError(...)
ExceptKeyError(out) ==
    IF ~out.ok /\ Catches({"KeyError"}, out.exc)
    THEN Raise(Exc("ValueError", <<"Neizvestnaya trenirovka">>))
    ELSE out

read_package(code, list) == ExceptKeyError(read_package_try(code, list))

\* print(line): returns None
print(line) == [out |-> Return(None), line |-> line]

\* main(training) for an outcome of show_training_info: what main returns
\* or raises, and the line it prints
Printed(info) ==
    IF info.ok THEN print(get_message(info.val)) ELSE [out |-> info, line |-> ""]

\* the possible outcomes of main(training)
main(self) == {Printed(info) : info \in show_training_info(self)}

\* str(e) of an exception raised with one message
RECURSIVE Join(_)
Join(pieces) == IF pieces = <<>> THEN "" ELSE Head(pieces) \o Join(Tail(pieces))

Str(e) == Join(e.msg)

(***************************************************************************)
(* Bounds and inputs                                                       *)
(***************************************************************************)
MaxLen == 5

MaxBatch == 2

Codes == {"RUN", "WLK", "SWM", "BWQ", ""}

\* the values tried at position i of data
Elems(i) ==
    CASE i = 1 -> {PyInt(15000), PyInt(9000), PyInt(720), PyBool(TRUE), PyStr("a")}
      [] i = 2 -> {PyInt(1), PyInt(0), PyFloat(1, 2), PyStr("1")}
      [] i = 3 -> {PyInt(75), PyInt(80), PyStr("w")}
      [] i = 4 -> {PyInt(180), PyInt(25), PyInt(0), PyStr("h")}
      [] i = 5 -> {PyInt(40), PyBool(FALSE), PyStr("21")}
      [] OTHER -> {PyInt(1), PyStr("x")}

RECURSIVE ListsOfLen(_)
ListsOfLen(k) ==
    IF k = 0 THEN {<<>>}
    ELSE {Append(l, e) : l \in ListsOfLen(k - 1), e \in Elems(k)}

DataLists == UNION {ListsOfLen(k) : k \in 0..MaxLen}

\* the records of the __main__ block, two whose duration or height is 0, one
\* whose distance 0.0195 is formatted next to a tie, and one whose squared
\* speed is no double
Records ==
    { <<"SWM", <<PyInt(720), PyInt(1), PyInt(80), PyInt(25), PyInt(40)>>>>,
      <<"RUN", <<PyInt(15000), PyInt(1), PyInt(75)>>>>,
      <<"WLK", <<PyInt(9000), PyInt(1), PyInt(75), PyInt(180)>>>>,
      <<"BWQ", <<PyInt(1), PyInt(2), PyInt(3)>>>>,
      <<"SWM", <<PyInt(720), PyInt(1), PyInt(80), PyInt(40), PyStr("21")>>>>,
      <<"RUN", <<PyInt(15000), PyInt(0), PyInt(75)>>>>,
      <<"WLK", <<PyInt(9000), PyInt(1), PyInt(75), PyInt(0)>>>>,
      <<"RUN", <<PyInt(30), PyInt(1), PyInt(75)>>>>,
      <<"WLK", <<PyInt(1844), PyInt(1), PyInt(75), PyInt(180)>>>> }

RECURSIVE BatchesOfLen(_)
BatchesOfLen(k) ==
    IF k = 0 THEN {<<>>}
    ELSE {Append(b, r) : b \in BatchesOfLen(k - 1), r \in Records}

Batches == UNION {BatchesOfLen(k) : k \in 1..MaxBatch}

NoCall == [fn |-> "", out |-> Return(None)]

Call(fn, out) == [fn |-> fn, out |-> out]

(***************************************************************************)
(* Spec: a caller of the module.  It reads one package, or instantiates a  *)
(* class that read_package does not know, and calls the methods.           *)
(***************************************************************************)
Init ==
    /\ packages = <<>>
    /\ idx = 1
    /\ workout_type \in Codes
    /\ data \in DataLists
    /\ training = None
    /\ ret = NoCall
    /\ stdout = <<>>
    /\ pc = "start"

\* training = read_package(workout_type, data), out its outcome
Assign(out) ==
    /\ ret' = Call("read_package", out)
    /\ training' = IF out.ok THEN out.val ELSE training
    /\ pc' = IF out.ok THEN "ready" ELSE "failed"

CallReadPackage ==
    /\ pc = "start"
    /\ Assign(read_package(workout_type, data))
    /\ UNCHANGED <<packages, idx, workout_type, data, stdout>>

\* Training(*data) or Rowing(*data), for three numbers, by a caller that
\* has no workout code
Instantiate(cls) ==
    /\ pc = "start"
    /\ workout_type = ""
    /\ Len(data) = 3
    /\ AllNumbers(data)
    /\ training' = Construct(cls, data)
    /\ ret' = Call("__init__", Return(None))
    /\ pc' = "ready"
    /\ UNCHANGED <<packages, idx, workout_type, data, stdout>>

CallMethod(fn, out) ==
    /\ pc = "ready"
    /\ ret' = Call(fn, out)
    /\ UNCHANGED <<packages, idx, workout_type, data, training, stdout, pc>>

CallGetDistance == CallMethod("get_distance", get_distance(training))

CallGetMeanSpeed == CallMethod("get_mean_speed", get_mean_speed(training))

CallGetSpentCalories ==
    /\ pc = "ready"
    /\ \E out \in get_spent_calories(training) : CallMethod("get_spent_calories", out)

CallShowTrainingInfo ==
    /\ pc = "ready"
    /\ \E out \in show_training_info(training) : CallMethod("show_training_info", out)

Next ==
    \/ CallReadPackage
    \/ \E cls \in {"Training", Rowing} : Instantiate(cls)
    \/ CallGetDistance
    \/ CallGetMeanSpeed
    \/ CallGetSpentCalories
    \/ CallShowTrainingInfo

Spec == Init /\ [][Next]_vars

(***************************************************************************)
(* SpecMain: the __main__ block, run over a batch of records.              *)
(***************************************************************************)
InitMain ==
    /\ packages \in Batches
    /\ idx = 1
    /\ workout_type = ""
    /\ data = <<>>
    /\ training = None
    /\ ret = NoCall
    /\ stdout = <<>>
    /\ pc = "for"

\* except (ValueError, TypeError) as e: print(...); any other exception
\* leaves the loop and ends the program with a traceback
Handle(e) ==
    IF Catches({"ValueError", "TypeError"}, e)
    THEN /\ stdout' = Append(stdout, "Oshibka: " \o Str(e))
         /\ idx' = idx + 1
         /\ pc' = "for"
    ELSE /\ pc' = "traceback"
         /\ UNCHANGED <<stdout, idx>>

\* main(training) inside the try statement, shown its outcome
TryMain(shown) ==
    /\ ret' = Call("main", shown.out)
    /\ IF shown.out.ok
       THEN /\ stdout' = Append(stdout, shown.line)
            /\ idx' = idx + 1
            /\ pc' = "for"
       ELSE Handle(shown.out.exc)

\* training = read_package(workout_type, data) inside the try statement,
\* read its outcome, and then main(training)
TryBody(read) ==
    IF read.ok
    THEN /\ training' = read.val
         /\ \E shown \in main(read.val) : TryMain(shown)
    ELSE /\ ret' = Call("read_package", read)
         /\ UNCHANGED training
         /\ Handle(read.exc)

\* one turn of the for loop: the try statement with its handler
Iterate ==
    /\ pc = "for"
    /\ idx <= Len(packages)
    /\ workout_type' = packages[idx][1]
    /\ data' = packages[idx][2]
    /\ TryBody(read_package(packages[idx][1], packages[idx][2]))
    /\ UNCHANGED packages

\* the for loop finds packages exhausted
Finish ==
    /\ pc = "for"
    /\ idx > Len(packages)
    /\ pc' = "done"
    /\ UNCHANGED <<packages, idx, workout_type, data, training, ret, stdout>>

NextMain == Iterate \/ Finish

SpecMain == InitMain /\ [][NextMain]_vars

(***************************************************************************)
(* Properties                                                              *)
(***************************************************************************)
KnownCodes == {"RUN", "WLK", "SWM"}

ArityOf(code) == CASE code = "RUN" -> 3 [] code = "WLK" -> 4 [] code = "SWM" -> 5

ClassOf(code) ==
    CASE code = "RUN" -> "Running"
      [] code = "WLK" -> "SportsWalking"
      [] code = "SWM" -> "Swimming"

\* read_package has just been called on workout_type and data
ReadDone == ret.fn = "read_package"

\* read_package raised ValueError with this message and built no instance
Refused(msg) ==
    /\ ~ret.out.ok
    /\ ret.out.exc = [type |-> "ValueError", msg |-> msg]
    /\ ret.out.val = None
    /\ training = None
    /\ pc = "failed"

KindsIn(kinds) == \A i \in 1..Len(data) : data[i].kind \in kinds

\* the instance whose fields are bound from data in the order of the list
Bound ==
    [cls |-> ClassOf(workout_type),
     action |-> data[1], duration |-> data[2], weight |-> data[3],
     height |-> IF workout_type = "WLK" THEN data[4] ELSE None,
     length_pool |-> IF workout_type = "SWM" THEN data[4] ELSE None,
     count_pool |-> IF workout_type = "SWM" THEN data[5] ELSE None]

Constructed ==
    /\ ret.out.ok
    /\ ret.out.exc = NoExc
    /\ ret.out.val = Bound
    /\ training = Bound
    /\ pc = "ready"

\* C1: for a code other than RUN, WLK and SWM read_package raises the
\* ValueError "unknown workout" whatever the data (also data that would fail
\* the length or the type test); no KeyError escapes, no instance is built.
C1_UnknownCode ==
    (ReadDone /\ workout_type \notin KnownCodes)
        => Refused(<<"Neizvestnaya trenirovka">>)

C1_Witness ==
    /\ ReadDone
    /\ workout_type = "BWQ"
    /\ Len(data) = 4
    /\ data[1].kind = "str"
    /\ ~ret.out.ok

\* C2: for a known code and a data list whose length is not the arity of the
\* code, read_package raises the ValueError that names the workout type, also
\* when every element is a number; no instance is built.
C2_WrongCount ==
    (ReadDone /\ workout_type \in KnownCodes /\ Len(data) # ArityOf(workout_type))
        => Refused(<<"Nepravil'noe kolichestvoelementov dlya ", workout_type>>)

C2_Witness ==
    /\ ReadDone
    /\ workout_type = "RUN"
    /\ Len(data) = 4
    /\ KindsIn({"int", "float"})
    /\ ~ret.out.ok

\* C3: for a known code and a data list of its arity with an element that is
\* not a number (a string) at any position, read_package raises the ValueError
\* "invalid value type" and builds no instance.
C3_NotANumber ==
    (/\ ReadDone
     /\ workout_type \in KnownCodes
     /\ Len(data) = ArityOf(workout_type)
     /\ \E i \in 1..Len(data) : data[i].kind \notin {"int", "float", "bool"})
        => Refused(<<"V massive prisutstvuyut znacheniya, otlichnye ot celyh chisel">>)

C3_Witness ==
    /\ ReadDone
    /\ workout_type = "WLK"
    /\ Len(data) = 4
    /\ data[4].kind = "str"
    /\ \A i \in 1..3 : data[i].kind \in {"int", "float"}
    /\ ~ret.out.ok

\* C4: for a known code and a data list of its arity whose elements are all
\* integers or floats, read_package raises nothing and returns an instance of
\* the class of the code with action, duration, weight and then height, or
\* length_pool and count_pool, bound from the list in this order.
C4_Constructs ==
    (/\ ReadDone
     /\ workout_type \in KnownCodes
     /\ Len(data) = ArityOf(workout_type)
     /\ KindsIn({"int", "float"}))
        => Constructed

C4_Witness ==
    /\ ReadDone
    /\ workout_type = "SWM"
    /\ Len(data) = 5
    /\ KindsIn({"int", "float"})
    /\ training.cls = "Swimming"
    /\ training.length_pool = PyInt(25)
    /\ training.count_pool = PyInt(40)

\* C10: a boolean passes the type test of read_package: for a known code and
\* a data list of its arity whose elements are integers, floats or booleans,
\* with a boolean among them, no error is raised and the instance is built
\* with the boolean bound to its field.
C10_BoolIsNumber ==
    (/\ ReadDone
     /\ workout_type \in KnownCodes
     /\ Len(data) = ArityOf(workout_type)
     /\ KindsIn({"int", "float", "bool"})
     /\ \E i \in 1..Len(data) : data[i].kind = "bool")
        => Constructed

C10_Witness ==
    /\ ReadDone
    /\ workout_type = "RUN"
    /\ Len(data) = 3
    /\ data[1] = PyBool(TRUE)
    /\ ret.out.ok
    /\ training.action = PyBool(TRUE)

\* |x - n/d| <= 1/100 for a number x >= 0 and integers n, d with 100*n >= d > 0
Within(x, n, d) ==
    /\ BLeq(BMul(BNat(100 * n - d), Den(x)), BMul(BNat(100 * d), Num(x)))
    /\ BLeq(BMul(BNat(100 * d), Num(x)), BMul(BNat(100 * n + d), Den(x)))

\* the last call was fn on the instance and it returned a float within 1e-2
\* of n/d
Returned(fn, n, d) ==
    ret.fn = fn => (ret.out.ok /\ ret.out.val.kind = "float" /\ Within(ret.out.val, n, d))

IsRunningSample ==
    /\ pc = "ready"
    /\ training = Training__init__("Running", PyInt(15000), PyInt(1), PyInt(75))

IsWalkingSample ==
    /\ pc = "ready"
    /\ training = SportsWalking__init__("SportsWalking", PyInt(9000), PyInt(1),
                                         PyInt(75), PyInt(180))

IsSwimmingSample ==
    /\ pc = "ready"
    /\ training = Swimming__init__("Swimming", PyInt(720), PyInt(1), PyInt(80),
                                    PyInt(25), PyInt(40))

\* C5 as stated: Running(15000, 1, 75) has distance 9.75, mean speed 9.75
\* and calories 691.71, each within 1e-2.
C5_AsStated ==
    IsRunningSample =>
        /\ Returned("get_distance", 975, 100)
        /\ Returned("get_mean_speed", 975, 100)
        /\ Returned("get_spent_calories", 69171, 100)

\* C5: Running(15000, 1, 75) has distance 9.75 km, mean speed 9.75 km/h and
\* calories 797.805, each within 1e-2.
C5_Running ==
    IsRunningSample =>
        /\ Returned("get_distance", 975, 100)
        /\ Returned("get_mean_speed", 975, 100)
        /\ Returned("get_spent_calories", 797805, 1000)

C5_Witness == IsRunningSample /\ ret.fn = "get_spent_calories" /\ ret.out.ok

\* C6 as stated: SportsWalking(9000, 1, 75, 180) has distance 5.85, mean
\* speed 5.85 and calories 157.23, each within 1e-2.
C6_AsStated ==
    IsWalkingSample =>
        /\ Returned("get_distance", 585, 100)
        /\ Returned("get_mean_speed", 585, 100)
        /\ Returned("get_spent_calories", 15723, 100)

\* C6: SportsWalking(9000, 1, 75, 180) has distance 5.85 km, mean speed
\* 5.85 km/h and calories 349.25, each within 1e-2.
C6_Walking ==
    IsWalkingSample =>
        /\ Returned("get_distance", 585, 100)
        /\ Returned("get_mean_speed", 585, 100)
        /\ Returned("get_spent_calories", 34925, 100)

C6_Witness == IsWalkingSample /\ ret.fn = "get_spent_calories" /\ ret.out.ok

\* C7 as stated: Swimming(720, 1, 80, 25, 40) has mean speed 1.0, distance
\* 0.468 and calories 336.0, each within 1e-2.
C7_AsStated ==
    IsSwimmingSample =>
        /\ Returned("get_mean_speed", 1, 1)
        /\ Returned("get_distance", 468, 1000)
        /\ Returned("get_spent_calories", 336, 1)

\* C7: Swimming(720, 1, 80, 25, 40) has mean speed 1.0 km/h, distance
\* 0.9936 km (720 strokes of 1.38 m) and calories 336.0, each within 1e-2.
C7_Swimming ==
    IsSwimmingSample =>
        /\ Returned("get_mean_speed", 1, 1)
        /\ Returned("get_distance", 9936, 10000)
        /\ Returned("get_spent_calories", 336, 1)

C7_Witness == IsSwimmingSample /\ ret.fn = "get_distance" /\ ret.out.ok

\* C8: get_spent_calories on an instance of Training or of a subclass that
\* does not override it raises NotImplementedError with the name of the class
\* of the instance in its message, and "except ValueError" does not catch it.
C8_NotImplemented ==
    (/\ pc = "ready"
     /\ ret.fn = "get_spent_calories"
     /\ training.cls \notin {"Running", "SportsWalking", "Swimming"})
        => /\ ~ret.out.ok
           /\ ret.out.exc.type = "NotImplementedError"
           /\ \E i \in 1..Len(ret.out.exc.msg) : ret.out.exc.msg[i] = training.cls
           /\ ~Catches({"ValueError"}, ret.out.exc)

C8_Witness ==
    /\ pc = "ready"
    /\ ret.fn = "get_spent_calories"
    /\ training.cls = "Training"
    /\ ret.out.exc.type = "NotImplementedError"

\* C9: in the loop of the __main__ block a record that fails does not affect
\* the others: the loop never stops before the end of the batch, and every
\* record it has passed has printed one line, its summary or its error.
C9_EveryRecordProcessed ==
    /\ pc # "traceback"
    /\ Len(stdout) = idx - 1
====
